---- MODULE Spec2Model ----
(***************************************************************************)
(* Model of src/app/app.py: the scanner that finds SELECT / UPDATE /       *)
(* DELETE / INSERT / MODIFY statements on obsolete FI/CO tables in ABAP    *)
(* text and suggests a rewritten statement.                                *)
(*                                                                         *)
(* Texts are TLA+ strings.  Offsets are Python offsets: 0-based, and a     *)
(* span [a, b) is the slice text[a:b].  The regular expressions are        *)
(* translated character by character, in the priority order of Python's    *)
(* backtracking matcher (greedy: longest first, lazy: shortest first).     *)
(***************************************************************************)
EXTENDS Integers, Sequences, FiniteSets, TLC

VARIABLES
    TABLE_MAPPING,   \* module global, app.py:11
    NO_VIEW_TABLES,  \* module global, app.py:26
    pc,              \* where the process is
    units,           \* the batch handed to analyze_units
    out,             \* analyze_units' out list
    idx,             \* index (1-based) of the unit analyze_units is at
    findings,        \* scan_unit's findings list
    matches,         \* every regex match scan_unit has iterated over, in order
    call             \* arguments and results of a direct call of the helpers

vars == <<TABLE_MAPPING, NO_VIEW_TABLES, pc, units, out, idx, findings, matches, call>>

None == "<None>"

(***************************************************************************)
(* Strings                                                                 *)
(***************************************************************************)

\* text[a:b] for 0 <= a, b <= len(text)
Slice(s, a, b) == IF a < b THEN SubSeq(s, a + 1, b) ELSE ""

\* text[i], or "" outside the text
CharAt(s, i) == IF 0 <= i /\ i < Len(s) THEN SubSeq(s, i + 1, i + 1) ELSE ""

\* text.startswith(w, i)
StartsAt(s, i, w) == i >= 0 /\ i + Len(w) <= Len(s) /\ SubSeq(s, i + 1, i + Len(w)) = w

UpperMap ==
    [a |-> "A", b |-> "B", c |-> "C", d |-> "D", e |-> "E", f |-> "F", g |-> "G",
     h |-> "H", i |-> "I", j |-> "J", k |-> "K", l |-> "L", m |-> "M", n |-> "N",
     o |-> "O", p |-> "P", q |-> "Q", r |-> "R", s |-> "S", t |-> "T", u |-> "U",
     v |-> "V", w |-> "W", x |-> "X", y |-> "Y", z |-> "Z"]

LowerMap ==
    [A |-> "a", B |-> "b", C |-> "c", D |-> "d", E |-> "e", F |-> "f", G |-> "g",
     H |-> "h", I |-> "i", J |-> "j", K |-> "k", L |-> "l", M |-> "m", N |-> "n",
     O |-> "o", P |-> "p", Q |-> "q", R |-> "r", S |-> "s", T |-> "t", U |-> "u",
     V |-> "v", W |-> "w", X |-> "x", Y |-> "y", Z |-> "z"]

Digits == {"0", "1", "2", "3", "4", "5", "6", "7", "8", "9"}

IsLetter(c) == c \in DOMAIN UpperMap \/ c \in DOMAIN LowerMap

\* \s
IsSpace(c) == c \in {" ", "\n", "\t", "\r", "\f"}

\* \w
IsWord(c) == IsLetter(c) \/ c \in Digits \/ c = "_"

\* [\w\s,*]
IsFieldsChar(c) == IsWord(c) \/ IsSpace(c) \/ c \in {",", "*"}

\* [\w@()\->]
IsTargetChar(c) == IsWord(c) \/ c \in {"@", "(", ")", "-", ">"}

upper_char(c) == IF c \in DOMAIN UpperMap THEN UpperMap[c] ELSE c

lower_char(c) == IF c \in DOMAIN LowerMap THEN LowerMap[c] ELSE c

\* str.upper()
RECURSIVE upper(_)
upper(s) ==
    IF Len(s) = 0 THEN ""
    ELSE IF Len(s) = 1 THEN upper_char(s)
    ELSE upper(SubSeq(s, 1, Len(s) \div 2)) \o upper(SubSeq(s, Len(s) \div 2 + 1, Len(s)))

\* str.title(): a letter is upper-cased after a non-letter, lower-cased after a letter
RECURSIVE TitleFrom(_, _, _)
TitleFrom(s, i, afterLetter) ==
    IF i >= Len(s) THEN ""
    ELSE LET c == CharAt(s, i)
         IN (IF afterLetter THEN lower_char(c) ELSE upper_char(c))
                \o TitleFrom(s, i + 1, IsLetter(c))

title(s) == TitleFrom(s, 0, FALSE)

\* str.strip()
RECURSIVE LStrip(_)
LStrip(s) == IF Len(s) > 0 /\ IsSpace(SubSeq(s, 1, 1)) THEN LStrip(SubSeq(s, 2, Len(s))) ELSE s

RECURSIVE RStrip(_)
RStrip(s) ==
    IF Len(s) > 0 /\ IsSpace(SubSeq(s, Len(s), Len(s)))
    THEN RStrip(SubSeq(s, 1, Len(s) - 1)) ELSE s

strip(s) == RStrip(LStrip(s))

MinOf(S) == CHOOSE k \in S : \A j \in S : k <= j

MaxOf(S) == CHOOSE k \in S : \A j \in S : k >= j

\* the least (greatest) offset of a set of offsets, -1 when there is none
MinOrNone(S) == IF S = {} THEN -1 ELSE MinOf(S)

MaxOrNone(S) == IF S = {} THEN -1 ELSE MaxOf(S)

\* text.find(c, i): the first offset >= i of character c, or -1
Find(s, c, i) == MinOrNone({k \in i..(Len(s) - 1) : CharAt(s, k) = c})

\* text.count(c, 0, off)
Count(s, c, off) == Cardinality({k \in 0..(off - 1) : CharAt(s, k) = c})

\* text.replace("\n", "\\n")
RECURSIVE EscapeNewlines(_)
EscapeNewlines(s) ==
    IF Len(s) = 0 THEN ""
    ELSE IF Len(s) = 1 THEN (IF s = "\n" THEN "\\n" ELSE s)
    ELSE EscapeNewlines(SubSeq(s, 1, Len(s) \div 2))
            \o EscapeNewlines(SubSeq(s, Len(s) \div 2 + 1, Len(s)))

\* s.split("/")[0]
FirstComponent(s) == LET k == Find(s, "/", 0) IN IF k < 0 THEN s ELSE Slice(s, 0, k)

\* the end of the run of \s starting at i (i itself when there is none)
RECURSIVE SkipSpace(_, _)
SkipSpace(s, i) == IF IsSpace(CharAt(s, i)) THEN SkipSpace(s, i + 1) ELSE i

\* the end of the run of \w starting at i
RECURSIVE SkipWord(_, _)
SkipWord(s, i) == IF IsWord(CharAt(s, i)) THEN SkipWord(s, i + 1) ELSE i

\* the end of the run of [\w\s,*] starting at i
SkipFields(s, i) == MinOf({k \in i..Len(s) : ~IsFieldsChar(CharAt(s, k))})

(***************************************************************************)
(* Configuration (app.py:11-26)                                            *)
(***************************************************************************)

MappedTables ==
    {"BSIS", "BSAS", "BSIK", "BSAK", "BSID", "BSAD", "GLT0",
     "COEP", "COSP", "COSS", "MLIT", "ANEP", "ANLP"}

InitialTableMapping == [t \in MappedTables |-> [source |-> "ACDOCA", view |-> TRUE]]

InitialNoViewTables == {"FAGLFLEXA", "FAGLFLEXT"}

StmtTypes == <<"SELECT", "UPDATE", "DELETE", "INSERT", "MODIFY">>

WriteTypes == {"UPDATE", "INSERT", "MODIFY", "DELETE"}

(***************************************************************************)
(* The statement regexes (app.py:56-73).  U is the upper-cased text: under *)
(* re.IGNORECASE a literal matches when the upper-cased characters agree.  *)
(* A match is [start, end, table_start, table_end]; NoMatch has start -1.  *)
(***************************************************************************)

NoMatch == [start |-> -1, end |-> -1, table_start |-> -1, table_end |-> -1]

\* INTO\s+TABLE\s+[\w@()\->]+ | INTO\s+[\w@()\->]+ at offset j: the second
\* alternative matches wherever the first does (TABLE is itself a target).
IntoAt(U, j) ==
    /\ StartsAt(U, j, "INTO")
    /\ IsSpace(CharAt(U, j + 4))
    /\ IsTargetChar(CharAt(U, SkipSpace(U, j + 4)))

\* the lazy (?P<middle>.*?): the first offset >= from where an INTO clause matches
FirstInto(U, from) == MinOrNone({j \in from..(Len(U) - 1) : IntoAt(U, j)})

\* the lazy (?P<tail>.*?)\.: the first "." after the INTO clause at j (-1: no clause)
DotAfterInto(U, j) == IF j < 0 THEN -1 ELSE Find(U, ".", j + 5)

\* the ends of the table and of the match for a table word ending at we: d1 is
\* the "." found with the whole word as the table, d2 the one found with the
\* word's last four letters read as INTO
SelectEnds(we, d1, d2) ==
    IF d1 >= 0 THEN [table_end |-> we, end |-> d1 + 1]
    ELSE IF d2 >= 0 THEN [table_end |-> we - 4, end |-> d2 + 1]
    ELSE [table_end |-> -1, end |-> -1]

\* (?P<table>\w+)(?P<middle>.*?)(?:INTO ...)(?P<tail>.*?)\. with the table at t0:
\* the greedy table is the whole word unless only a shorter one leaves an INTO
\* clause followed by a "." (then the word ends in INTO); the lazy tail stops
\* at the first "." after the INTO clause.
SelectRest(U, t0) ==
    LET we == SkipWord(U, t0)
    IN  SelectEnds(we,
                   DotAfterInto(U, FirstInto(U, we)),
                   IF we - 4 > t0 /\ IntoAt(U, we - 4) THEN Find(U, ".", we + 1) ELSE -1)

\* SELECT\s+(?:SINGLE\s+)?(?P<fields>[\w\s,*]+)\s+FROM\s+(?P<table>\w+)... with
\* SELECT at i, \s after it at s0 and the run of [\w\s,*] from s0 ending at
\* runEnd.  FromAt(U, p): a FROM at p, after a blank, from which the rest of
\* the pattern matches.  The greedy fields are tried longest first, so the
\* match takes the FROM at the largest such p; at least three characters
\* (\s, one of the fields, \s) lie between s0 and p.  (SINGLE is made of \w:
\* read as the modifier or as part of the fields it leaves the same FROM.)
FromAt(U, p) ==
    /\ IsSpace(CharAt(U, p - 1))
    /\ StartsAt(U, p, "FROM")
    /\ IsSpace(CharAt(U, p + 4))
    /\ IsWord(CharAt(U, SkipSpace(U, p + 4)))
    /\ SelectRest(U, SkipSpace(U, p + 4)).end >= 0

\* the match object: SELECT at i, the table at t0, the ends as SelectRest found them
SelectMatch(i, t0, rest) ==
    [start |-> i, end |-> rest.end, table_start |-> t0, table_end |-> rest.table_end]

\* the match with SELECT at i and FROM at p (-1: no FROM lets the pattern match)
SelectAt(U, i, p) ==
    IF p < 0 THEN NoMatch
    ELSE SelectMatch(i, SkipSpace(U, p + 4), SelectRest(U, SkipSpace(U, p + 4)))

SelectFrom(U, i, s0, runEnd) ==
    SelectAt(U, i, MaxOrNone({p \in (s0 + 3)..(runEnd - 4) : FromAt(U, p)}))

\* SELECT_RE.match(text, i)
SELECT_RE(U, i) ==
    IF StartsAt(U, i, "SELECT") /\ IsSpace(CharAt(U, i + 6))
    THEN SelectFrom(U, i, i + 6, SkipFields(U, i + 6))
    ELSE NoMatch

\* (KW\s+\w+[\s\S]*?\.) at offset i
KeywordStmt(U, kw, i) ==
    IF ~StartsAt(U, i, kw) THEN NoMatch
    ELSE LET a == i + Len(kw)
             b == SkipSpace(U, a)
             d == Find(U, ".", b + 1)
         IN  IF b > a /\ IsWord(CharAt(U, b)) /\ d >= 0
             THEN [start |-> i, end |-> d + 1, table_start |-> -1, table_end |-> -1]
             ELSE NoMatch

UPDATE_RE(U, i) == KeywordStmt(U, "UPDATE", i)

INSERT_RE(U, i) == KeywordStmt(U, "INSERT", i)

MODIFY_RE(U, i) == KeywordStmt(U, "MODIFY", i)

\* (DELETE\s+FROM\s+\w+[\s\S]*?\.) at offset i
DELETE_RE(U, i) ==
    IF ~StartsAt(U, i, "DELETE") THEN NoMatch
    ELSE LET a == i + 6
             b == SkipSpace(U, a)
             c == SkipSpace(U, b + 4)
             d == Find(U, ".", c + 1)
         IN  IF /\ b > a
                /\ StartsAt(U, b, "FROM")
                /\ c > b + 4
                /\ IsWord(CharAt(U, c))
                /\ d >= 0
             THEN [start |-> i, end |-> d + 1, table_start |-> -1, table_end |-> -1]
             ELSE NoMatch

\* the pattern paired with each statement type (app.py:146, 163-168)
PatternMatch(stmt_type, U, i) ==
    CASE stmt_type = "SELECT" -> SELECT_RE(U, i)
      [] stmt_type = "UPDATE" -> UPDATE_RE(U, i)
      [] stmt_type = "DELETE" -> DELETE_RE(U, i)
      [] stmt_type = "INSERT" -> INSERT_RE(U, i)
      [] stmt_type = "MODIFY" -> MODIFY_RE(U, i)

\* pattern.search(text, pos): the offset of the leftmost match at or after pos, or -1
search(stmt_type, U, pos) ==
    MinOrNone({i \in pos..(Len(U) - 1) : PatternMatch(stmt_type, U, i).start >= 0})

\* pattern.finditer(text): the leftmost match at or after pos, then on from its end
RECURSIVE finditer(_, _, _)
MatchesFrom(stmt_type, U, i) ==
    IF i < 0 THEN <<>>
    ELSE <<PatternMatch(stmt_type, U, i)>>
            \o finditer(stmt_type, U, PatternMatch(stmt_type, U, i).end)

finditer(stmt_type, U, pos) == MatchesFrom(stmt_type, U, search(stmt_type, U, pos))

\* re.search(rf"{stmt_type}\s+(?:FROM\s+)?(\w+)", stmt_text, re.IGNORECASE) (app.py:171):
\* the span of group 1, or <<-1, -1>> when there is no match
TableMatchAt(stmt_type, U, i) ==
    LET a == i + Len(stmt_type)
        b == SkipSpace(U, a)
        c == SkipSpace(U, b + 4)
    IN  IF StartsAt(U, i, stmt_type) /\ b > a
               /\ StartsAt(U, b, "FROM") /\ c > b + 4 /\ IsWord(CharAt(U, c))
        THEN <<c, SkipWord(U, c)>>
        ELSE IF StartsAt(U, i, stmt_type) /\ b > a /\ IsWord(CharAt(U, b))
        THEN <<b, SkipWord(U, b)>>
        ELSE <<-1, -1>>

TableMatchFrom(stmt_type, U, i) ==
    IF i < 0 THEN <<-1, -1>> ELSE TableMatchAt(stmt_type, U, i)

table_match(stmt_type, U) ==
    TableMatchFrom(stmt_type, U,
        MinOrNone({i \in 0..(Len(U) - 1) : TableMatchAt(stmt_type, U, i)[1] >= 0}))

(***************************************************************************)
(* Classification and rewriting (app.py:76-117)                            *)
(***************************************************************************)

\* text.count("\n", 0, off) + 1
line_of_offset(text, off) == Count(text, "\n", off) + 1

snippet_at(text, start, end) ==
    LET s == IF start - 60 > 0 THEN start - 60 ELSE 0
        e == IF end + 60 < Len(text) THEN end + 60 ELSE Len(text)
    IN  EscapeNewlines(Slice(text, s, e))

\* (table or "")
OrEmpty(table) == IF table = None THEN "" ELSE table

\* get_replacement_table comparing the name as written (no upper-casing)
get_replacement_table_CaseSensitive(table) ==
    LET t_up == OrEmpty(table)
    IN  IF t_up \in NO_VIEW_TABLES THEN "ACDOCA"
        ELSE IF t_up \in DOMAIN TABLE_MAPPING
        THEN FirstComponent(TABLE_MAPPING[t_up].source)
        ELSE table

get_replacement_table(table) ==
    LET t_up == upper(OrEmpty(table))
    IN  IF t_up \in NO_VIEW_TABLES THEN "ACDOCA"
        ELSE IF t_up \in DOMAIN TABLE_MAPPING
        THEN FirstComponent(TABLE_MAPPING[t_up].source)
        ELSE table

\* remediation_comment deciding by the table before the statement kind
remediation_comment_TableFirst(table, stmt_type) ==
    LET t_up == upper(OrEmpty(table))
    IN  IF t_up \in NO_VIEW_TABLES
        THEN "/* NOTE: " \o t_up \o " is obsolete in S/4HANA. Use ACDOCA directly and map fields accordingly. */"
        ELSE IF stmt_type \in {"UPDATE", "INSERT", "MODIFY", "DELETE"}
        THEN "/* NOTE: Compatibility view cannot be used for write operations in S/4HANA. Use ACDOCA or source table directly. */"
        ELSE IF t_up \in DOMAIN TABLE_MAPPING
        THEN "/* NOTE: " \o t_up \o " is obsolete in S/4HANA. Adapt to ACDOCA or compatibility view (source: "
                \o TABLE_MAPPING[t_up].source \o "). */"
        ELSE ""

remediation_comment(table, stmt_type) ==
    LET t_up == upper(OrEmpty(table))
    IN  IF stmt_type \in {"UPDATE", "INSERT", "MODIFY", "DELETE"}
        THEN "/* NOTE: Compatibility view cannot be used for write operations in S/4HANA. Use ACDOCA or source table directly. */"
        ELSE IF t_up \in NO_VIEW_TABLES
        THEN "/* NOTE: " \o t_up \o " is obsolete in S/4HANA. Use ACDOCA directly and map fields accordingly. */"
        ELSE IF t_up \in DOMAIN TABLE_MAPPING
        THEN "/* NOTE: " \o t_up \o " is obsolete in S/4HANA. Adapt to ACDOCA or compatibility view (source: "
                \o TABLE_MAPPING[t_up].source \o "). */"
        ELSE ""

\* rf"\bFROM\s+{re.escape(table)}\b" at offset i (UT: the table, upper-cased):
\* the end of the match, or -1
FromTablePattern(U, UT, i) ==
    LET g == SkipSpace(U, i + 4)
    IN  IF /\ ~IsWord(CharAt(U, i - 1))
           /\ StartsAt(U, i, "FROM")
           /\ g > i + 4
           /\ StartsAt(U, g, UT)
           /\ ~IsWord(CharAt(U, g + Len(UT)))
        THEN g + Len(UT) ELSE -1

\* rf"({stmt_type}\s+FROM\s+{re.escape(table)})" at offset i
KeywordFromTablePattern(stmt_type, U, UT, i) ==
    LET b == SkipSpace(U, i + Len(stmt_type))
        g == SkipSpace(U, b + 4)
    IN  IF /\ StartsAt(U, i, stmt_type)
           /\ b > i + Len(stmt_type)
           /\ StartsAt(U, b, "FROM")
           /\ g > b + 4
           /\ StartsAt(U, g, UT)
        THEN g + Len(UT) ELSE -1

\* rf"({stmt_type}\s+){re.escape(table)}\b" at offset i
KeywordTablePattern(stmt_type, U, UT, i) ==
    LET g == SkipSpace(U, i + Len(stmt_type))
    IN  IF /\ StartsAt(U, i, stmt_type)
           /\ g > i + Len(stmt_type)
           /\ StartsAt(U, g, UT)
           /\ ~IsWord(CharAt(U, g + Len(UT)))
        THEN g + Len(UT) ELSE -1

\* re.sub(rf"\bFROM\s+{table}\b", repl, text, flags=re.IGNORECASE) from offset i on:
\* every match, left to right, is replaced (re.sub is given no count)
RECURSIVE SubFromTable(_, _, _, _, _)
SubFromTable(text, U, UT, repl, i) ==
    LET at == {k \in i..(Len(text) - 1) : FromTablePattern(U, UT, k) >= 0}
    IN  IF at = {} THEN Slice(text, i, Len(text))
        ELSE LET k == MinOf(at)
             IN  Slice(text, i, k) \o repl
                    \o SubFromTable(text, U, UT, repl, FromTablePattern(U, UT, k))

\* re.sub(rf"({stmt_type}\s+FROM\s+{table})", repl, text, flags=re.IGNORECASE)
RECURSIVE SubKeywordFromTable(_, _, _, _, _, _)
SubKeywordFromTable(stmt_type, text, U, UT, repl, i) ==
    LET at == {k \in i..(Len(text) - 1) : KeywordFromTablePattern(stmt_type, U, UT, k) >= 0}
    IN  IF at = {} THEN Slice(text, i, Len(text))
        ELSE LET k == MinOf(at)
             IN  Slice(text, i, k) \o repl
                    \o SubKeywordFromTable(stmt_type, text, U, UT, repl,
                                           KeywordFromTablePattern(stmt_type, U, UT, k))

\* re.sub(rf"({stmt_type}\s+){table}\b", rf"\1{tail}", text, flags=re.IGNORECASE):
\* group 1 (the keyword and the blanks, as written) is kept
RECURSIVE SubKeywordTable(_, _, _, _, _, _)
SubKeywordTable(stmt_type, text, U, UT, tail, i) ==
    LET at == {k \in i..(Len(text) - 1) : KeywordTablePattern(stmt_type, U, UT, k) >= 0}
    IN  IF at = {} THEN Slice(text, i, Len(text))
        ELSE LET k == MinOf(at)
                 e == KeywordTablePattern(stmt_type, U, UT, k)
             IN  Slice(text, i, e - Len(UT)) \o tail
                    \o SubKeywordTable(stmt_type, text, U, UT, tail, e)

remediate_select(sel_text, table) ==
    LET rep_table == get_replacement_table(table)
        comment == remediation_comment(table, "SELECT")
    IN  strip(SubFromTable(sel_text, upper(sel_text), upper(table),
                           "FROM " \o rep_table \o " " \o comment, 0))

remediate_other(stmt, stmt_type, table) ==
    LET rep_table == get_replacement_table(table)
        comment == remediation_comment(table, stmt_type)
    IN  IF stmt_type \in {"DELETE", "SELECT"}
        THEN strip(SubKeywordFromTable(stmt_type, stmt, upper(stmt), upper(table),
                        stmt_type \o " FROM " \o rep_table \o " " \o comment, 0))
        ELSE strip(SubKeywordTable(stmt_type, stmt, upper(stmt), upper(table),
                        rep_table \o " " \o comment, 0))

(***************************************************************************)
(* Findings (app.py:120-192)                                               *)
(***************************************************************************)

\* unit.code or ""
Src(unit) == IF unit.code = None THEN "" ELSE unit.code

pack_issue(unit, issue_type, message, severity, start, end, suggestion, meta) ==
    [pgm_name |-> unit.pgm_name,
     inc_name |-> unit.inc_name,
     type |-> unit.type,
     name |-> unit.name,
     class_implementation |-> unit.class_implementation,
     start_line |-> unit.start_line,
     end_line |-> unit.end_line,
     issue_type |-> issue_type,
     severity |-> severity,
     line |-> line_of_offset(Src(unit), start),
     message |-> message,
     suggestion |-> suggestion,
     snippet |-> snippet_at(Src(unit), start, end),
     meta |-> meta]

\* the filter letting every table through
IsObsolete_AnyTable(t_up) == t_up # ""

\* t_up in TABLE_MAPPING or t_up in NO_VIEW_TABLES (app.py:149, 175)
IsObsolete(t_up) == t_up \in DOMAIN TABLE_MAPPING \/ t_up \in NO_VIEW_TABLES

\* the body of the SELECT loop for a match m whose table is obsolete (app.py:150-160)
SelectFinding(unit, m) ==
    LET src == Src(unit)
        table == Slice(src, m.table_start, m.table_end)
        t_up == upper(OrEmpty(table))
        suggestion == remediate_select(Slice(src, m.start, m.end - 1), table)
        msg == "SELECT on obsolete table/view " \o t_up \o "."
        comm == remediation_comment(table, "SELECT")
        meta == [orig_table |-> table,
                 replacement_table |-> get_replacement_table(table),
                 comment_hint |-> comm]
    IN  pack_issue(unit, "ObsoleteTableSelect", msg, "warning", m.start, m.end, suggestion, meta)

\* table_match.group(1), or None when table_match is None (app.py:172-173)
Group1(stmt_text, span) ==
    IF span[1] < 0 THEN None ELSE Slice(stmt_text, span[1], span[2])

\* the table of a write match: group 1 of table_match on the stripped statement
\* text (app.py:170-173)
WriteTable(stmt_type, stmt_text) ==
    Group1(stmt_text, table_match(stmt_type, upper(stmt_text)))

\* stmt_text = m.group(1).strip() (app.py:170)
StmtText(unit, m) == strip(Slice(Src(unit), m.start, m.end))

\* the write loop's body never escalating the severity
WriteFinding_Warning(unit, stmt_type, m, stmt_text, table) ==
    LET t_up == upper(OrEmpty(table))
        suggestion == remediate_other(stmt_text, stmt_type, table)
        msg == stmt_type \o " on obsolete table/view " \o t_up \o "."
        sev == "warning"
        comm == remediation_comment(table, stmt_type)
        meta == [orig_table |-> table,
                 replacement_table |-> get_replacement_table(table),
                 comment_hint |-> comm]
    IN  pack_issue(unit, "ObsoleteTable" \o title(stmt_type), msg, sev,
                   m.start, m.end, suggestion, meta)

\* the body of the write loop for a match m with statement text stmt_text whose
\* table is obsolete (app.py:176-187)
WriteFinding(unit, stmt_type, m, stmt_text, table) ==
    LET t_up == upper(OrEmpty(table))
        suggestion == remediate_other(stmt_text, stmt_type, table)
        msg == stmt_type \o " on obsolete table/view " \o t_up \o "."
        sev == IF stmt_type \in {"UPDATE", "INSERT", "MODIFY", "DELETE"}
               THEN "error" ELSE "warning"
        comm == remediation_comment(table, stmt_type)
        meta == [orig_table |-> table,
                 replacement_table |-> get_replacement_table(table),
                 comment_hint |-> comm]
    IN  pack_issue(unit, "ObsoleteTable" \o title(stmt_type), msg, sev,
                   m.start, m.end, suggestion, meta)

\* the table a match of the given pass extracts (None: no table could be extracted)
MatchTable(unit, stmt_type, m) ==
    IF stmt_type = "SELECT" THEN Slice(Src(unit), m.table_start, m.table_end)
    ELSE WriteTable(stmt_type, StmtText(unit, m))

\* the offset in the unit's code of group 1 of table_match: the match's start,
\* the blanks strip() removed in front of the statement, the offset in stmt_text
TableOffset(m, stmt, span) ==
    IF span[1] < 0 THEN -1
    ELSE m.start + (Len(stmt) - Len(LStrip(stmt))) + span[1]

\* the offset in the unit's code where the table was read (-1: none)
MatchTableStart(unit, stmt_type, m) ==
    IF stmt_type = "SELECT" THEN m.table_start
    ELSE TableOffset(m, Slice(Src(unit), m.start, m.end),
                     table_match(stmt_type, upper(StmtText(unit, m))))

\* whether the loop body appends a finding for a match with that table
\* (app.py:149, 172-175)
Retained(table) == table # None /\ IsObsolete(upper(OrEmpty(table)))

\* the finding the loop body builds for match m
FindingFor(unit, stmt_type, m, table) ==
    IF stmt_type = "SELECT" THEN SelectFinding(unit, m)
    ELSE WriteFinding(unit, stmt_type, m, StmtText(unit, m), table)

\* the loop body putting the finding at the front of the list
LoopBody_Prepend(unit, stmt_type, m, table, acc) ==
    IF Retained(table) THEN <<FindingFor(unit, stmt_type, m, table)>> \o acc ELSE acc

\* the loop body for match m with extracted table: findings.append(...) under
\* the two tests (app.py:147-160, 170-187)
LoopBody(unit, stmt_type, m, table, acc) ==
    IF Retained(table) THEN Append(acc, FindingFor(unit, stmt_type, m, table)) ELSE acc

\* the for loop over one pattern's matches ms, from the k-th on, appending to acc
RECURSIVE ScanLoop(_, _, _, _, _)
ScanLoop(unit, stmt_type, ms, k, acc) ==
    IF k > Len(ms) THEN acc
    ELSE ScanLoop(unit, stmt_type, ms, k + 1,
                  LoopBody(unit, stmt_type, ms[k], MatchTable(unit, stmt_type, ms[k]), acc))

\* what the pass records of a match: the span, the table and where it was
\* read, whether a finding was appended
LogEntry(stmt_type, m, table, table_start) ==
    [stmt_type |-> stmt_type, start |-> m.start, end |-> m.end,
     table |-> table, table_start |-> table_start, retained |-> Retained(table)]

MatchLog(unit, stmt_type, ms) ==
    [k \in 1..Len(ms) |->
        LogEntry(stmt_type, ms[k], MatchTable(unit, stmt_type, ms[k]),
                 MatchTableStart(unit, stmt_type, ms[k]))]

\* one pass of scan_unit: the findings list after the loop over stmt_type's pattern
ScanPass(unit, stmt_type, acc) ==
    ScanLoop(unit, stmt_type, finditer(stmt_type, upper(Src(unit)), 0), 1, acc)

\* scan_unit(unit)["findings"], all five passes
scan_unit(unit) ==
    ScanPass(unit, "MODIFY",
      ScanPass(unit, "INSERT",
        ScanPass(unit, "DELETE",
          ScanPass(unit, "UPDATE",
            ScanPass(unit, "SELECT", <<>>)))))

\* unit.model_dump() with res["findings"] = findings (app.py:190-192)
UnitResult(unit, fs) ==
    [pgm_name |-> unit.pgm_name,
     inc_name |-> unit.inc_name,
     type |-> unit.type,
     name |-> unit.name,
     class_implementation |-> unit.class_implementation,
     start_line |-> unit.start_line,
     end_line |-> unit.end_line,
     code |-> unit.code,
     findings |-> fs]

(***************************************************************************)
(* Inputs                                                                  *)
(***************************************************************************)

\* lines per generated code text
MaxStmts == 2

\* units per generated multi-unit batch
MaxUnits == 2

Statements ==
    {"SELECT * FROM BSIS INTO TABLE @lt_x.",
     "select single * from faglflexa\n  into wa.",
     "SELECT * FROM ZCUSTOM_TABLE INTO TABLE @lt_x.",
     "SELECT * FROM BSAK WHERE k = 1.",
     "SELECT bsid FROM BSID WHERE k IN ( SELECT k FROM bsid ) INTO TABLE t.",
     "UPDATE BSIS SET field = 1 WHERE id = 2.",
     "UPDATE FROM BSIS SET x = 1.",
     "UPDATE bsik SET a = 1. UPDATE bsad SET b = 2.",
     "DELETE FROM FAGLFLEXA WHERE x = 1.",
     "DELETE FROM ztab WHERE\n x = 1.",
     "INSERT Coep FROM wa.",
     "INSERT INTO bsis VALUES wa.",
     "MODIFY FAGLFLEXT FROM wa.",
     "MODIFY glt0 FROM wa WHERE MODIFY glt0 ."}

RECURSIVE Join(_)
Join(ss) ==
    IF Len(ss) = 0 THEN ""
    ELSE IF Len(ss) = 1 THEN ss[1]
    ELSE ss[1] \o "\n" \o Join(Tail(ss))

\* code texts: up to MaxStmts of the lines above
Texts == {Join(ss) : ss \in UNION {[1..n -> Statements] : n \in 0..MaxStmts}}

Unit(pgm_name, code) ==
    [pgm_name |-> pgm_name, inc_name |-> "ZINC", type |-> "PROG", name |-> None,
     class_implementation |-> None, start_line |-> None, end_line |-> None,
     code |-> code]

\* the units of the multi-unit batches
BatchUnits ==
    {Unit(pgm, code) :
        pgm \in {"ZPROG_A", "ZPROG_B"},
        code \in {None,
                  "UPDATE BSIS SET field = 1 WHERE id = 2.\nSELECT * FROM BSIS INTO TABLE @lt_x.",
                  "MODIFY ztab FROM wa."}}

Batches ==
    {<<Unit("ZPROG", code)>> : code \in Texts}
        \cup UNION {[1..n -> BatchUnits] : n \in {0} \cup 2..MaxUnits}

\* the names the helpers are called with directly: every obsolete name in
\* upper, lower and title case, and names that are not obsolete
TableNames ==
    {"BSIS", "BSAS", "BSIK", "BSAK", "BSID", "BSAD", "GLT0", "COEP",
     "COSP", "COSS", "MLIT", "ANEP", "ANLP", "FAGLFLEXA", "FAGLFLEXT", "bsis",
     "bsas", "bsik", "bsak", "bsid", "bsad", "glt0", "coep", "cosp",
     "coss", "mlit", "anep", "anlp", "faglflexa", "faglflext", "Bsis", "Bsas",
     "Bsik", "Bsak", "Bsid", "Bsad", "Glt0", "Coep", "Cosp", "Coss",
     "Mlit", "Anep", "Anlp", "Faglflexa", "Faglflext", "", "ACDOCA", "acdoca",
     "ZCUSTOM_TABLE", "BSI", "BSISX", "FAGLFLEX", "BSIS/BSAS", "bsis ", "T001"}

(***************************************************************************)
(* The process                                                             *)
(***************************************************************************)

Init ==
    /\ TABLE_MAPPING = InitialTableMapping
    /\ NO_VIEW_TABLES = InitialNoViewTables
    /\ pc = "wait"
    /\ units = <<>>
    /\ out = <<>>
    /\ idx = 0
    /\ findings = <<>>
    /\ matches = <<>>
    /\ call = None

\* POST /remediate-array: analyze_units(units) starts with out = [] (app.py:195-196, 202-204)
remediate_array ==
    /\ pc = "wait"
    /\ \E batch \in Batches : units' = batch
    /\ out' = <<>>
    /\ idx' = 1
    /\ pc' = "loop"
    /\ UNCHANGED <<TABLE_MAPPING, NO_VIEW_TABLES, findings, matches, call>>

\* scan_unit entered with the findings list of the previous unit
EnterScanUnit_KeepFindings ==
    /\ pc = "loop"
    /\ idx <= Len(units)
    /\ pc' = "SELECT"
    /\ UNCHANGED <<TABLE_MAPPING, NO_VIEW_TABLES, units, out, idx, call, findings, matches>>

\* for u in units: scan_unit(u) is entered, findings = [] (app.py:197-198, 141-143)
EnterScanUnit ==
    /\ pc = "loop"
    /\ idx <= Len(units)
    /\ findings' = <<>>
    /\ matches' = <<>>
    /\ pc' = "SELECT"
    /\ UNCHANGED <<TABLE_MAPPING, NO_VIEW_TABLES, units, out, idx, call>>

\* the loop over the matches ms of stmt_type's pattern in the unit's code
RunLoop(unit, stmt_type, ms) ==
    /\ findings' = ScanLoop(unit, stmt_type, ms, 1, findings)
    /\ matches' = matches \o MatchLog(unit, stmt_type, ms)

\* the SELECT loop (app.py:146-160)
ScanSelect ==
    /\ pc = "SELECT"
    /\ RunLoop(units[idx], "SELECT", finditer("SELECT", upper(Src(units[idx])), 0))
    /\ pc' = "UPDATE"
    /\ UNCHANGED <<TABLE_MAPPING, NO_VIEW_TABLES, units, out, idx, call>>

\* one round of the loop over UPDATE, DELETE, INSERT, MODIFY (app.py:163-187)
ScanWrite ==
    /\ pc \in {"UPDATE", "DELETE", "INSERT", "MODIFY"}
    /\ RunLoop(units[idx], pc, finditer(pc, upper(Src(units[idx])), 0))
    /\ pc' = CASE pc = "UPDATE" -> "DELETE"
               [] pc = "DELETE" -> "INSERT"
               [] pc = "INSERT" -> "MODIFY"
               [] pc = "MODIFY" -> "dump"
    /\ UNCHANGED <<TABLE_MAPPING, NO_VIEW_TABLES, units, out, idx, call>>

\* scan_unit returns the unit's fields with its findings; analyze_units appends
\* the result to out (app.py:190-192, 198)
ReturnScanUnit ==
    /\ pc = "dump"
    /\ out' = Append(out, UnitResult(units[idx], findings))
    /\ idx' = idx + 1
    /\ pc' = "loop"
    /\ UNCHANGED <<TABLE_MAPPING, NO_VIEW_TABLES, units, findings, matches, call>>

\* return out: the response is sent and the request's objects are dropped (app.py:199, 204)
Respond ==
    /\ pc = "loop"
    /\ idx > Len(units)
    /\ pc' = "wait"
    /\ units' = <<>>
    /\ out' = <<>>
    /\ idx' = 0
    /\ findings' = <<>>
    /\ matches' = <<>>
    /\ UNCHANGED <<TABLE_MAPPING, NO_VIEW_TABLES, call>>

\* a direct call of get_replacement_table and remediation_comment (app.py:84-101)
CallHelpers ==
    /\ pc = "wait"
    /\ \E table \in TableNames, stmt_type \in {"SELECT", "UPDATE", "DELETE", "INSERT", "MODIFY"} :
          call' = [table |-> table, stmt_type |-> stmt_type,
                   replacement |-> get_replacement_table(table),
                   comment |-> remediation_comment(table, stmt_type)]
    /\ pc' = "called"
    /\ UNCHANGED <<TABLE_MAPPING, NO_VIEW_TABLES, units, out, idx, findings, matches>>

ReturnHelpers ==
    /\ pc = "called"
    /\ call' = None
    /\ pc' = "wait"
    /\ UNCHANGED <<TABLE_MAPPING, NO_VIEW_TABLES, units, out, idx, findings, matches>>

Next ==
    \/ remediate_array
    \/ EnterScanUnit
    \/ ScanSelect
    \/ ScanWrite
    \/ ReturnScanUnit
    \/ Respond
    \/ CallHelpers
    \/ ReturnHelpers

Spec == Init /\ [][Next]_vars

(***************************************************************************)
(* Properties                                                              *)
(***************************************************************************)

\* scan_unit is running on units[idx], or has just finished its last pass
Scanning == pc \in {"SELECT", "UPDATE", "DELETE", "INSERT", "MODIFY", "dump"}

\* the configured obsolete names, as written in app.py:11-26
ObsoleteNames ==
    {"BSIS", "BSAS", "BSIK", "BSAK", "BSID", "BSAD", "GLT0", "COEP", "COSP", "COSS",
     "MLIT", "ANEP", "ANLP", "FAGLFLEXA", "FAGLFLEXT"}

Contains(s, sub) == \E i \in 0..(Len(s) - Len(sub)) : StartsAt(s, i, sub)

Occurrences(s, sub) == Cardinality({i \in 0..(Len(s) - Len(sub)) : StartsAt(s, i, sub)})

\* the logged matches for which a finding was appended, in order
RetainedMatches == SelectSeq(matches, LAMBDA m : m.retained)

KindRank(stmt_type) == CHOOSE r \in 1..5 : StmtTypes[r] = stmt_type

IssueTypeOf(stmt_type) ==
    CASE stmt_type = "SELECT" -> "ObsoleteTableSelect"
      [] stmt_type = "UPDATE" -> "ObsoleteTableUpdate"
      [] stmt_type = "DELETE" -> "ObsoleteTableDelete"
      [] stmt_type = "INSERT" -> "ObsoleteTableInsert"
      [] stmt_type = "MODIFY" -> "ObsoleteTableModify"

\* C1: a match yields a finding only if its table, upper-cased, is one of the
\* obsolete names; every other match is dropped.  The findings are, one for
\* one and in order, the matches on obsolete tables; every finding's
\* meta.orig_table is obsolete; the unit whose only statement selects from
\* ZCUSTOM_TABLE has no findings.
C1_OnlyObsoleteTablesReported ==
    LET onObsolete == SelectSeq(matches,
                        LAMBDA m : m.table # None /\ upper(m.table) \in ObsoleteNames)
    IN  /\ Len(findings) = Len(onObsolete)
        /\ \A k \in DOMAIN findings :
              /\ upper(findings[k].meta.orig_table) \in ObsoleteNames
              /\ findings[k].meta.orig_table = onObsolete[k].table
        /\ (Scanning /\ units[idx].code = "SELECT * FROM ZCUSTOM_TABLE INTO TABLE @lt_x.")
              => findings = <<>>

\* a scan that dropped a match on a table that is not obsolete and kept another
C1_Witness ==
    /\ pc = "dump"
    /\ Len(findings) >= 1
    /\ \E k \in DOMAIN matches :
          /\ ~matches[k].retained
          /\ matches[k].table # None
          /\ upper(matches[k].table) \notin ObsoleteNames

\* C2: the findings are in the order SELECT, UPDATE, DELETE, INSERT, MODIFY of
\* their statement kinds, within one kind in the left-to-right order of their
\* match start offsets, and there is exactly one finding per retained match.
C2_KindThenPositionOrder ==
    LET R == RetainedMatches
    IN  /\ Len(findings) = Len(R)
        /\ \A k \in DOMAIN findings :
              /\ findings[k].issue_type = IssueTypeOf(R[k].stmt_type)
              /\ findings[k].meta.orig_table = R[k].table
              /\ Scanning =>
                    findings[k].line = 1 + Occurrences(Slice(Src(units[idx]), 0, R[k].start), "\n")
        /\ \A j, k \in DOMAIN findings :
              j < k =>
                 /\ KindRank(R[j].stmt_type) <= KindRank(R[k].stmt_type)
                 /\ R[j].stmt_type = R[k].stmt_type => R[j].start < R[k].start

\* a scan with two findings of one kind, and a finding of an earlier kind whose
\* statement stands later in the text than that of a finding of a later kind
C2_Witness ==
    /\ pc = "dump"
    /\ \E j, k \in DOMAIN findings :
          j < k /\ findings[j].issue_type = findings[k].issue_type
    /\ \E j, k \in DOMAIN findings :
          /\ j < k
          /\ findings[j].issue_type # findings[k].issue_type
          /\ findings[j].line > findings[k].line

\* C3: every finding's issue_type is ObsoleteTable followed by the kind of the
\* pass that produced it; its severity is warning exactly for SELECT and error
\* for the four write kinds; no other value appears.
C3_IssueTypeAndSeverity ==
    LET R == RetainedMatches
    IN  /\ Len(findings) = Len(R)
        /\ \A k \in DOMAIN findings :
              /\ findings[k].issue_type = IssueTypeOf(R[k].stmt_type)
              /\ findings[k].severity \in {"warning", "error"}
              /\ findings[k].severity = "warning" <=> R[k].stmt_type = "SELECT"
              /\ findings[k].message =
                    R[k].stmt_type \o " on obsolete table/view " \o upper(R[k].table) \o "."

\* a scan that produced a SELECT finding (a warning) and a MODIFY finding (an error)
C3_Witness ==
    /\ pc = "dump"
    /\ \E k \in DOMAIN findings : findings[k].severity = "warning"
    /\ \E k \in DOMAIN findings :
          findings[k].severity = "error" /\ findings[k].issue_type = "ObsoleteTableModify"

WriteNote == "Compatibility view cannot be used for write operations"

\* the comment policy, for a statement kind, a table and a comment
FollowsCommentPolicy(stmt_type, table, comment) ==
    LET t_up == upper(table)
    IN  /\ stmt_type \in WriteTypes =>
              /\ Contains(comment, WriteNote)
              /\ ~Contains(comment, "is obsolete")
        /\ (stmt_type = "SELECT" /\ t_up \in InitialNoViewTables) =>
              /\ Contains(comment, t_up \o " is obsolete")
              /\ Contains(comment, "Use ACDOCA directly")
              /\ ~Contains(comment, WriteNote)
        /\ (stmt_type = "SELECT" /\ t_up \in MappedTables) =>
              /\ Contains(comment, t_up \o " is obsolete")
              /\ Contains(comment, "(source: " \o InitialTableMapping[t_up].source \o ")")
              /\ ~Contains(comment, WriteNote)

\* C5: remediation_comment returns the write-operation comment for UPDATE,
\* INSERT, MODIFY and DELETE whatever the table (also for a NO_VIEW_TABLES
\* table); for SELECT the use-ACDOCA-directly comment for a NO_VIEW_TABLES
\* table and the comment naming the source for a TABLE_MAPPING table.  A
\* finding's meta.comment_hint, and the comment in its suggestion, follow it.
C5_CommentPolicy ==
    /\ pc = "called" => FollowsCommentPolicy(call.stmt_type, call.table, call.comment)
    /\ LET R == RetainedMatches
       IN  \A k \in DOMAIN findings :
              /\ FollowsCommentPolicy(R[k].stmt_type, findings[k].meta.orig_table,
                                      findings[k].meta.comment_hint)
              /\ Contains(findings[k].suggestion, "/*") =>
                    /\ Contains(findings[k].suggestion, findings[k].meta.comment_hint)
                    /\ Occurrences(findings[k].suggestion, "/*")
                          = Occurrences(findings[k].suggestion, findings[k].meta.comment_hint)

\* the scenario DELETE FROM FAGLFLEXA WHERE x = 1.: a write on a NO_VIEW_TABLES table
C5_Witness ==
    /\ pc = "dump"
    /\ \E k \in DOMAIN findings :
          /\ findings[k].issue_type = "ObsoleteTableDelete"
          /\ findings[k].meta.orig_table = "FAGLFLEXA"
          /\ Contains(findings[k].suggestion, "DELETE FROM ACDOCA /* NOTE: " \o WriteNote)

\* C6: get_replacement_table returns ACDOCA when the upper-cased name is in
\* NO_VIEW_TABLES, otherwise the first "/"-separated component of the entry's
\* source when it is in TABLE_MAPPING, otherwise the name unchanged, for any
\* string (also the empty one); a match is treated as obsolete exactly in the
\* first two cases.
C6_ClassifierTotal ==
    /\ pc = "called" =>
          LET t_up == upper(call.table)
              r == call.replacement
          IN  /\ t_up \in InitialNoViewTables => r = "ACDOCA"
              /\ (t_up \notin InitialNoViewTables /\ t_up \in MappedTables) =>
                    LET source == InitialTableMapping[t_up].source
                    IN  /\ ~Contains(r, "/")
                        /\ r = source \/ StartsAt(source, 0, r \o "/")
              /\ t_up \notin ObsoleteNames => r = call.table
    /\ \A k \in DOMAIN matches :
          matches[k].table # None =>
              (matches[k].retained <=> upper(matches[k].table) \in ObsoleteNames)

\* a direct call with a lower-case obsolete name
C6_Witness ==
    /\ pc = "called"
    /\ call.table = "faglflext"
    /\ call.replacement = "ACDOCA"

\* C8: analyze_units keeps the input order and the units do not interact: the
\* i-th result carries the i-th unit's fields and exactly the findings
\* scan_unit yields for that unit alone; TABLE_MAPPING and NO_VIEW_TABLES are
\* never modified.
C8_BatchOrderAndIndependence ==
    /\ TABLE_MAPPING = InitialTableMapping
    /\ NO_VIEW_TABLES = InitialNoViewTables
    /\ Len(out) <= Len(units)
    /\ pc = "loop" => Len(out) = idx - 1
    /\ \A i \in DOMAIN out :
          /\ [f \in DOMAIN units[i] |-> out[i][f]] = units[i]
          /\ out[i].findings = scan_unit(units[i])

\* a finished batch of two units of different programs, the first with
\* findings, the second without
C8_Witness ==
    /\ pc = "loop"
    /\ Len(units) = 2
    /\ Len(out) = 2
    /\ out[1].pgm_name # out[2].pgm_name
    /\ out[1].findings # <<>>
    /\ out[2].findings = <<>>

\* C4: re-scanning a finding's suggestion, as the code of a new unit, produces
\* no findings.
C4_RescanOfSuggestionFindsNothing ==
    \A k \in DOMAIN findings :
        scan_unit(Unit("ZPROG", findings[k].suggestion)) = <<>>

\* the text of the statement a logged match covers, as handed to the rewrite
\* (m.group("full") for SELECT, m.group(1).strip() for the write kinds)
MatchedStatement(m) ==
    IF m.stmt_type = "SELECT" THEN Slice(Src(units[idx]), m.start, m.end - 1)
    ELSE strip(Slice(Src(units[idx]), m.start, m.end))

\* C7: the suggestion is the matched statement with the one structural
\* occurrence of the table (the table the match extracted) replaced by
\* "<replacement> <comment>": every other occurrence of the name and all other
\* text is unchanged, and the suggestion holds the replacement and comment
\* exactly once.  (Compared without regard to letter case and outer blanks.)
C7_OnlyStructuralOccurrenceReplaced ==
    Scanning =>
        LET R == RetainedMatches
        IN  \A k \in DOMAIN findings :
                LET m == R[k]
                    stmt == MatchedStatement(m)
                    at == m.table_start - m.start
                    new == findings[k].meta.replacement_table \o " "
                                \o findings[k].meta.comment_hint
                IN  /\ Occurrences(findings[k].suggestion, new) = 1
                    /\ upper(findings[k].suggestion) =
                          upper(strip(Slice(stmt, 0, at) \o new
                                        \o Slice(stmt, at + Len(m.table), Len(stmt))))

\* C9: a SELECT match ends at the first "." after its SELECT keyword: the
\* matched span holds no other "." and does not reach into later statements.
C9_SelectEndsAtFirstTerminator ==
    Scanning =>
        \A k \in DOMAIN matches :
            matches[k].stmt_type = "SELECT" =>
                Find(Src(units[idx]), ".", matches[k].start) = matches[k].end - 1

\* C10: for UPDATE, INSERT and MODIFY the table tested is the first word right
\* after the keyword (a FROM there is skipped for DELETE only), so a statement
\* whose first word after the keyword is FROM yields no finding.
C10_FromSkippedForDeleteOnly ==
    Scanning =>
        \A k \in DOMAIN matches :
            (matches[k].stmt_type \in {"UPDATE", "INSERT", "MODIFY"}
                    /\ matches[k].table # None) =>
                LET first == SkipSpace(Src(units[idx]),
                                       matches[k].start + Len(matches[k].stmt_type))
                IN  /\ matches[k].table_start = first
                    /\ upper(matches[k].table) = "FROM" => ~matches[k].retained
                    /\ StartsAt(upper(Src(units[idx])), first, "FROM ")
                          => ~matches[k].retained

====
